---- MODULE Spec2Model ----
(***************************************************************************)
(* Model of the polling observer of usb_enumeration (src/src/lib.rs):      *)
(* Observer::subscribe spawns one worker thread that enumerates the        *)
(* attached USB devices, sends Event::Initial, and then polls: it waits    *)
(* poll_interval one-second increments (checking the cancellation channel  *)
(* rx_close on each), re-enumerates, sends Disconnect / Connect events for *)
(* the difference and stores the new population.                           *)
(***************************************************************************)
EXTENDS Integers, Sequences, FiniteSets, TLC

\* ------------------------------------------------------------------ bounds
MaxChanges == 2      \* changes of the attached population the environment makes
MaxInterval == 1     \* largest poll_interval (seconds) an Observer is built with

\* ------------------------------------------------------------- data model
\* Option<T>: None is the empty sequence, Some(x) the one-element sequence.
None == <<>>
Some(x) == <<x>>

\* DeviceBaseClass::Hub = 0x09
Hub == 9

\* struct UsbDevice; derive(PartialEq, Eq, Hash) makes equality structural,
\* which is equality of TLA+ records.
UsbDevice(id, vid, pid, desc, serial) ==
    [id |-> id, vendor_id |-> vid, product_id |-> pid,
     description |-> desc, serial_number |-> serial, base_class |-> Hub]

\* The device values the environment can present.  DevA and DevADesc are
\* one physical device (same id) before and after the OS has filled in its
\* description; DevB is another device with the same vendor and product id.
DevA == UsbDevice("a", 1, 1, None, None)
DevADesc == UsbDevice("a", 1, 1, Some("name"), None)
DevB == UsbDevice("b", 1, 1, None, None)
Devices == {DevA, DevADesc, DevB}

\* Devices for the filters: DevA matches vendor 1 and product 1, DevV has
\* another vendor id, DevP another product id.
DevV == UsbDevice("v", 2, 1, None, None)
DevP == UsbDevice("p", 1, 2, None, None)
FilterDevices == {DevA, DevV, DevP}

\* A population the OS can report: ids are unique among attached devices.
PopulationsOf(U) ==
    {P \in SUBSET U : \A d, e \in P : d.id = e.id => d = e}

Populations == PopulationsOf(Devices)

\* enum Event { Initial(Vec<USBDevice>), Connect(USBDevice), Disconnect(USBDevice) }
\* The payload is kept as a sequence of devices in all three cases.
Initial(list) == [type |-> "Initial", devices |-> list]
Connect(d) == [type |-> "Connect", devices |-> <<d>>]
Disconnect(d) == [type |-> "Disconnect", devices |-> <<d>>]

Range(s) == {s[i] : i \in 1..Len(s)}

VARIABLES
    attached,       \* environment: the devices attached right now
    changes,        \* environment: number of population changes made so far
    poll_interval,  \* Observer.poll_interval
    vendor_id,      \* Observer.vendor_id  (Option<u16>)
    product_id,     \* Observer.product_id (Option<u16>)
    pc,             \* position of the worker thread
    initial_list,   \* worker: Vec returned by the first enumeration (line 193)
    device_list,    \* worker: HashSet<USBDevice>, the stored population
    next_devices,   \* worker: HashSet<USBDevice> of the current tick
    wait_seconds,   \* worker: remaining wait increments
    todo,           \* worker: elements the running for-loop has not visited yet
    chan,           \* unbounded event channel: sent and not yet received
    rx_count,       \* live Receiver<Event> handles of the event channel
    tx_count,       \* live Sender<()> handles of the cancellation channel
    sent,           \* history: every event successfully sent, in order
    sentTick,       \* history: for every sent event, the tick that sent it
    received,       \* history: every event the consumer received, in order
    tickEvents,     \* history: events sent by the current tick
    tickNo,         \* history: number of ticks that found a changed population
    exitReason,     \* history: why the worker returned
    universe,       \* environment: the device values the OS can present
    streamEnded,    \* consumer: the iteration over rx_event has ended
    waits,          \* history: wait increments completed since the last enumeration
    lastEnum,       \* history: the set returned by the most recent enumeration
    outcome,        \* how the call of Observer::subscribe ended
    win_records,    \* windows.rs: the device records SetupAPI presents, by index
    win_vid,        \* windows.rs: enumerate_platform's vid argument
    win_pid,        \* windows.rs: enumerate_platform's pid argument
    win_i,          \* windows.rs: the loop index i
    win_output,     \* windows.rs: the output Vec
    win_pc,         \* windows.rs: position of the call of enumerate_platform
    win_visits,     \* history: how often the loop body ran for each index
    pc2,            \* second subscription: position of its worker thread
    initial_list2,  \* second worker: Vec returned by its first enumeration
    device_list2,   \* second worker: its stored population
    next_devices2,  \* second worker: the population of its current tick
    wait_seconds2,  \* second worker: remaining wait increments
    todo2,          \* second worker: elements its for-loop has not visited yet
    chan2,          \* event channel of the second subscribe call
    rx_count2,      \* live Receiver<Event> handles of the second event channel
    tx_count2,      \* live Sender<()> handles of the second cancellation channel
    sent2,          \* history: every event the second worker sent, in order
    received2,      \* history: every event received on the second rx_event
    arrived,        \* history: devices that became attached since the last enumeration
    transient       \* history: devices that came and went between the last two enumerations

envVars == <<attached, changes>>
observerVars == <<poll_interval, vendor_id, product_id>>
winVars == <<win_records, win_vid, win_pid, win_i, win_output, win_pc, win_visits>>
worker2Vars == <<pc2, initial_list2, device_list2, next_devices2, wait_seconds2, todo2>>
handle2Vars == <<rx_count2, tx_count2>>
secondVars == <<worker2Vars, chan2, handle2Vars, sent2, received2>>
flickerVars == <<arrived, transient>>
fixedVars == <<universe, outcome, winVars, secondVars>>
workerVars == <<pc, initial_list, device_list, next_devices, wait_seconds, todo>>
handleVars == <<rx_count, tx_count>>
historyVars == <<sent, sentTick, received, tickEvents, tickNo, exitReason>>
vars == <<attached, changes, poll_interval, vendor_id, product_id,
          pc, initial_list, device_list, next_devices, wait_seconds, todo,
          chan, rx_count, tx_count,
          sent, sentTick, received, tickEvents, tickNo, exitReason,
          universe, streamEnded, waits, lastEnum, outcome,
          win_records, win_vid, win_pid, win_i, win_output, win_pc, win_visits,
          pc2, initial_list2, device_list2, next_devices2, wait_seconds2, todo2,
          chan2, rx_count2, tx_count2, sent2, received2,
          arrived, transient>>

\* ------------------------------------------------------------ enumeration
RECURSIVE Orderings(_)
\* enumerate_platform() returns the attached devices in the order the OS
\* lists them, which the program does not control: every ordering is possible.
Orderings(S) ==
    IF S = {} THEN {<<>>}
    ELSE UNION {{<<d>> \o rest : rest \in Orderings(S \ {d})} : d \in S}

\* pub fn enumerate() -> Vec<USBDevice>
enumerate(att) == Orderings(att)

\* Filters::with_vendor_id for Vec<USBDevice>
with_vendor_id_keepAll(list, v) == list
with_vendor_id(list, v) == SelectSeq(list, LAMBDA d : d.vendor_id = v)

\* Filters::with_product_id for Vec<USBDevice>
with_product_id(list, p) == SelectSeq(list, LAMBDA d : d.product_id = p)

\* Observer::enumerate(&self), applied to one result of enumerate()
Observer_enumerate(list) ==
    LET byVendor == IF vendor_id # None
                    THEN with_vendor_id(list, vendor_id[1]) ELSE list
    IN  IF product_id # None
        THEN with_product_id(byVendor, product_id[1]) ELSE byVendor

\* Event::Initial(device_list.clone()), the first event the worker sends
FirstEvent_connect(list) == [type |-> "Connect", devices |-> list]
FirstEvent(list) == Initial(list)

\* HashSet<USBDevice>::contains with the derived Eq/Hash of the device
contains_by_id(set, d) == \E e \in set : e.id = d.id
contains(set, d) == d \in set

\* ---------------------------------------------------------------- channels
\* tx_event.send(..) on the unbounded channel: fails only when every
\* receiver is gone, never blocks.
send_result == IF rx_count > 0 THEN "Ok" ELSE "Err"

\* unbounded(): the event channel has no capacity limit, a send never waits
\* for room in the queue q.
send_ready_rendezvous(q) == Len(q) = 0
send_ready(q) == TRUE

\* if tx_event.send(..).is_err() { return; }  (the same shape at lines
\* 196-198, 222-226 and 231-235): the position the worker continues at.
AfterSend_ignore(result, contPc) == contPc
AfterSend(result, contPc) == IF result = "Err" THEN "done" ELSE contPc

\* The channel keeps messages in sending order.
push_front(q, e) == <<e>> \o q
push(q, e) == Append(q, e)

\* rx_close.recv_timeout(1s) on the bounded(0) channel nothing is ever sent
\* on: Disconnected once every tx_close is dropped, Timeout otherwise.
recv_timeout_eager == "Disconnected"
recv_timeout == IF tx_count = 0 THEN "Disconnected" ELSE "Timeout"

\* if let Err(Disconnected) = rx_close.recv_timeout(..) { return; }
AfterRecvTimeout_ignore(r) == "wait"
AfterRecvTimeout(r) == IF r = "Disconnected" THEN "done" ELSE "wait"

\* The statements of one tick after the enumeration, in program order: the
\* Disconnect loop, the Connect loop, the assignment of device_list.
TickSteps_swapped == <<"connects", "disconnects", "store">>
TickSteps == <<"disconnects", "connects", "store">>

StepAfter(p) ==
    LET i == CHOOSE k \in 1..Len(TickSteps) : TickSteps[k] = p
    IN  TickSteps[i + 1]

\* The set a for-loop iterates: &device_list or &next_devices.
LoopOver_sameSet(p, old, new) ==
    IF p \in {"disconnects", "connects"} THEN old ELSE {}
LoopOver(p, old, new) ==
    IF p = "disconnects" THEN old ELSE IF p = "connects" THEN new ELSE {}

\* let mut device_list: HashSet<USBDevice> = device_list.into_iter().collect();
into_set_empty(list) == {}
into_set(list) == Range(list)

\* wait_seconds = this.poll_interval; at the top of every tick
WaitReset_skipped(interval) == 0
WaitReset(interval) == interval

\* device_list = next_devices;
StoreKeepOld(old, new) == old
Store(old, new) == new

\* ------------------------------------------- windows.rs enumerate_platform
MaxRecords == 2      \* longest list of device records SetupAPI presents
MaxVisits == 2       \* the loop body is followed at most this often per index

\* A string is the sequence of its characters.
StrVid == <<"V", "I", "D", "_">>
StrPid == <<"P", "I", "D", "_">>

\* char::to_uppercase on the characters that occur
ToUpper(c) ==
    CASE c = "v" -> "V"
      [] c = "i" -> "I"
      [] c = "d" -> "D"
      [] c = "p" -> "P"
      [] OTHER -> c

\* str::to_uppercase
to_uppercase(str) == [k \in 1..Len(str) |-> ToUpper(str[k])]

\* str::find(pattern): the byte index (from 0) of the first match
find(str, pat) ==
    LET hits == {k \in 0..(Len(str) - Len(pat)) :
                    SubSeq(str, k + 1, k + Len(pat)) = pat}
    IN  IF hits = {} THEN None
        ELSE Some(CHOOSE k \in hits : \A h \in hits : k <= h)

\* &id[from..to] panics unless from <= to <= id.len()
slice_in_range(str, from, to) == from <= to /\ to <= Len(str)

HexDigits == {"0", "1", "2", "3", "4", "5", "6", "7", "8", "9",
              "A", "B", "C", "D", "E", "F"}

HexVal(c) ==
    CASE c = "0" -> 0 [] c = "1" -> 1 [] c = "2" -> 2 [] c = "3" -> 3
      [] c = "4" -> 4 [] c = "5" -> 5 [] c = "6" -> 6 [] c = "7" -> 7
      [] c = "8" -> 8 [] c = "9" -> 9 [] c = "A" -> 10 [] c = "B" -> 11
      [] c = "C" -> 12 [] c = "D" -> 13 [] c = "E" -> 14 [] c = "F" -> 15

RECURSIVE HexNumber(_)
HexNumber(digits) ==
    IF digits = <<>> THEN 0
    ELSE 16 * HexNumber(SubSeq(digits, 1, Len(digits) - 1))
         + HexVal(digits[Len(digits)])

\* u16::from_str_radix(str, 16): Some(value), or None for Err (empty, a
\* character that is no hex digit, a value above u16::MAX); one leading "+"
\* is accepted.
from_str_radix(str) ==
    LET digits == IF str # <<>> /\ str[1] = "+" THEN Tail(str) ELSE str IN
    IF digits = <<>> \/ \E k \in 1..Len(digits) : digits[k] \notin HexDigits
    THEN None
    ELSE IF HexNumber(digits) > 65535 THEN None
    ELSE Some(HexNumber(digits))

\* fn extract_vid_pid: Ok with both ids, Err (ParseError or ParseIntError),
\* or a panic of the slice index.  The tuple is evaluated left to right.
extract_vid_pid(hardware_id) ==
    LET id == to_uppercase(hardware_id)
        vid == find(id, StrVid)
        pid == find(id, StrPid)
    IN  IF vid = None \/ pid = None THEN [kind |-> "Err"]
        ELSE IF ~slice_in_range(id, vid[1] + 4, vid[1] + 8)
             THEN [kind |-> "Panic"]
        ELSE IF from_str_radix(SubSeq(id, vid[1] + 5, vid[1] + 8)) = None
             THEN [kind |-> "Err"]
        ELSE IF ~slice_in_range(id, pid[1] + 4, pid[1] + 8)
             THEN [kind |-> "Panic"]
        ELSE IF from_str_radix(SubSeq(id, pid[1] + 5, pid[1] + 8)) = None
             THEN [kind |-> "Err"]
        ELSE [kind |-> "Ok",
              vendor_id |-> from_str_radix(SubSeq(id, vid[1] + 5, vid[1] + 8))[1],
              product_id |-> from_str_radix(SubSeq(id, pid[1] + 5, pid[1] + 8))[1]]

\* The USBDevice windows.rs pushes.
WinDevice(id, vid, pid, desc) ==
    [id |-> id, vendor_id |-> vid, product_id |-> pid, description |-> Some(desc)]

\* One device record of the SetupAPI device-info set: the hardware id
\* (SPDRP_HARDWAREID), the description (SPDRP_DEVICEDESC) and the instance
\* id, each None when its call fails.  expect is the device the record
\* stands for, None when the record cannot be decoded.
WinRecord(hw, desc, id, expect) ==
    [hardware_id |-> hw, description |-> desc, instance_id |-> id, expect |-> expect]

\* "USB\VID_0001&PID_0001" and variants of it
HwGood == <<"U", "\\", "V", "I", "D", "_", "0", "0", "0", "1", "&",
            "P", "I", "D", "_", "0", "0", "0", "1">>
HwLowerOtherVendor == <<"v", "i", "d", "_", "0", "0", "0", "2", "&",
                        "p", "i", "d", "_", "0", "0", "0", "1">>
HwNotHex == <<"V", "I", "D", "_", "0", "0", "G", "1", "&",
              "P", "I", "D", "_", "0", "0", "0", "1">>
HwRootHub == <<"R", "O", "O", "T">>
HwShort == <<"V", "I", "D", "_", "0", "0", "0", "1", "&",
             "P", "I", "D", "_", "1", "2">>

RecGood == WinRecord(Some(HwGood), Some("desc"), Some("a"),
                     Some(WinDevice("a", 1, 1, "desc")))
RecOtherVendor == WinRecord(Some(HwLowerOtherVendor), Some("desc"), Some("v"),
                            Some(WinDevice("v", 2, 1, "desc")))
RecNotHex == WinRecord(Some(HwNotHex), Some("desc"), Some("n"), None)
RecRootHub == WinRecord(Some(HwRootHub), Some("desc"), Some("r"), None)
RecShort == WinRecord(Some(HwShort), Some("desc"), Some("s"), None)
RecNoId == WinRecord(Some(HwGood), Some("desc"), None, None)

WinRecords == {RecGood, RecOtherVendor, RecNotHex, RecRootHub, RecShort, RecNoId}

RecordLists == UNION {[1..n -> WinRecords] : n \in 0..MaxRecords}

\* ------------------------------------------------------------------- Init
\* No call of the Windows enumerate_platform is under way.
WinIdle ==
    /\ win_records = <<>>
    /\ win_vid = None
    /\ win_pid = None
    /\ win_i = 0
    /\ win_output = <<>>
    /\ win_pc = "idle"
    /\ win_visits = <<>>

\* Observer::subscribe has not been called a second time.
SecondIdle ==
    /\ pc2 = "unspawned"
    /\ initial_list2 = <<>>
    /\ device_list2 = {}
    /\ next_devices2 = {}
    /\ wait_seconds2 = 0
    /\ todo2 = {}
    /\ chan2 = <<>>
    /\ rx_count2 = 0
    /\ tx_count2 = 0
    /\ sent2 = <<>>
    /\ received2 = <<>>

\* The worker's locals and the histories before the worker has run.
Fresh ==
    /\ WinIdle
    /\ SecondIdle
    /\ initial_list = <<>>
    /\ device_list = {}
    /\ next_devices = {}
    /\ wait_seconds = 0
    /\ todo = {}
    /\ chan = <<>>
    /\ sent = <<>>
    /\ sentTick = <<>>
    /\ received = <<>>
    /\ tickEvents = <<>>
    /\ tickNo = 0
    /\ exitReason = "none"
    /\ streamEnded = FALSE
    /\ waits = 0
    /\ lastEnum = {}
    /\ arrived = {}
    /\ transient = {}

\* The state Observer::subscribe leaves behind: the worker thread is spawned
\* and has not run yet, the caller holds rx_event and tx_close.
Subscribed ==
    /\ pc = "enumerate"
    /\ rx_count = 1
    /\ tx_count = 1
    /\ outcome = "returned"
    /\ Fresh

\* Observer::new(poll_interval).subscribe()
Init ==
    /\ universe = Devices
    /\ attached \in Populations
    /\ changes = 0
    /\ poll_interval \in 0..MaxInterval
    /\ vendor_id = None
    /\ product_id = None
    /\ Subscribed

\* Observer::new(poll_interval), before subscribe() is called: no thread, no
\* channel endpoint in the caller's hands.
FailureInit ==
    /\ universe = Devices
    /\ attached \in Populations
    /\ changes = 0
    /\ poll_interval \in 0..MaxInterval
    /\ vendor_id = None
    /\ product_id = None
    /\ pc = "unspawned"
    /\ rx_count = 0
    /\ tx_count = 0
    /\ outcome = "pending"
    /\ Fresh

\* Observer::new(1) with or without .with_vendor_id(1) and
\* .with_product_id(1), then .subscribe()
FilterInit ==
    /\ universe = FilterDevices
    /\ attached \in PopulationsOf(FilterDevices)
    /\ changes = 0
    /\ poll_interval = 1
    /\ vendor_id \in {None, Some(1)}
    /\ product_id \in {None, Some(1)}
    /\ Subscribed

\* ----------------------------------------------------------------- worker
\* One tx_event.send(e) followed by the is_err() test.
Emit(e, contPc) ==
    LET result == send_result IN
    /\ send_ready(chan)
    /\ pc' = AfterSend(result, contPc)
    /\ exitReason' = IF result = "Err" THEN "send_failed" ELSE exitReason
    /\ IF result = "Ok"
       THEN /\ chan' = push(chan, e)
            /\ sent' = Append(sent, e)
            /\ sentTick' = Append(sentTick, tickNo)
            /\ tickEvents' = IF pc = "send_initial" THEN tickEvents
                             ELSE Append(tickEvents, e)
       ELSE UNCHANGED <<chan, sent, sentTick, tickEvents>>

\* let device_list = this.enumerate();
InitialEnumerate ==
    /\ pc = "enumerate"
    /\ \E list \in enumerate(attached) :
           initial_list' = Observer_enumerate(list)
    /\ lastEnum' = Range(initial_list')
    /\ transient' = (arrived \ lastEnum') \ lastEnum
    /\ arrived' = {}
    /\ pc' = "send_initial"
    /\ UNCHANGED <<envVars, observerVars, fixedVars, streamEnded, waits, device_list, next_devices,
                   wait_seconds, todo, chan, handleVars, historyVars>>

\* Send Event::Initial, then build the HashSet and set wait_seconds.
SendInitial ==
    /\ pc = "send_initial"
    /\ Emit(FirstEvent(initial_list), "wait")
    /\ IF pc' = "done"
       THEN UNCHANGED <<device_list, wait_seconds>>
       ELSE /\ device_list' = into_set(initial_list)
            /\ wait_seconds' = poll_interval
    /\ waits' = 0
    /\ UNCHANGED <<envVars, observerVars, fixedVars, flickerVars, streamEnded, lastEnum, initial_list, next_devices, todo, handleVars,
                   received, tickNo>>

\* One iteration of `while wait_seconds > 0`.
WaitIncrement ==
    /\ pc = "wait"
    /\ wait_seconds > 0
    /\ LET r == recv_timeout IN
       /\ pc' = AfterRecvTimeout(r)
       /\ exitReason' = IF r = "Disconnected" THEN "cancelled" ELSE exitReason
    /\ wait_seconds' = IF pc' = "done" THEN wait_seconds ELSE wait_seconds - 1
    /\ waits' = IF pc' = "done" THEN waits ELSE waits + 1
    /\ UNCHANGED <<envVars, observerVars, fixedVars, flickerVars, streamEnded, lastEnum, initial_list, device_list,
                   next_devices, todo, chan, handleVars,
                   sent, sentTick, received, tickEvents, tickNo>>

\* The wait is over: reset wait_seconds and enumerate again.
Poll ==
    /\ pc = "wait"
    /\ wait_seconds = 0
    /\ wait_seconds' = WaitReset(poll_interval)
    /\ \E list \in enumerate(attached) :
           next_devices' = Range(Observer_enumerate(list))
    /\ lastEnum' = next_devices'
    /\ transient' = (arrived \ lastEnum') \ lastEnum
    /\ arrived' = {}
    /\ waits' = 0
    /\ pc' = TickSteps[1]
    /\ todo' = LoopOver(pc', device_list, next_devices')
    /\ tickEvents' = <<>>
    /\ tickNo' = IF next_devices' # device_list THEN tickNo + 1 ELSE tickNo
    /\ UNCHANGED <<envVars, observerVars, fixedVars, streamEnded, initial_list, device_list, chan,
                   handleVars, sent, sentTick, received, exitReason>>

\* One iteration of `for device in &device_list`.
DisconnectStep ==
    /\ pc = "disconnects"
    /\ \E device \in todo :
          /\ todo' = todo \ {device}
          /\ IF ~contains(next_devices, device)
             THEN Emit(Disconnect(device), pc)
             ELSE UNCHANGED <<pc, exitReason, chan, sent, sentTick, tickEvents>>
    /\ UNCHANGED <<envVars, observerVars, fixedVars, flickerVars, streamEnded, waits, lastEnum, initial_list, device_list,
                   next_devices, wait_seconds, handleVars, received, tickNo>>

\* One iteration of `for device in &next_devices`.
ConnectStep ==
    /\ pc = "connects"
    /\ \E device \in todo :
          /\ todo' = todo \ {device}
          /\ IF ~contains(device_list, device)
             THEN Emit(Connect(device), pc)
             ELSE UNCHANGED <<pc, exitReason, chan, sent, sentTick, tickEvents>>
    /\ UNCHANGED <<envVars, observerVars, fixedVars, flickerVars, streamEnded, waits, lastEnum, initial_list, device_list,
                   next_devices, wait_seconds, handleVars, received, tickNo>>

\* A for-loop has visited every element: go on to the next statement.
LoopExit ==
    /\ pc \in {"disconnects", "connects"}
    /\ todo = {}
    /\ pc' = StepAfter(pc)
    /\ todo' = LoopOver(pc', device_list, next_devices)
    /\ UNCHANGED <<envVars, observerVars, fixedVars, flickerVars, streamEnded, waits, lastEnum, initial_list, device_list,
                   next_devices, wait_seconds, chan, handleVars, historyVars>>

\* device_list = next_devices; and back to the top of `loop`.
StoreStep ==
    /\ pc = "store"
    /\ device_list' = Store(device_list, next_devices)
    /\ next_devices' = {}
    /\ pc' = "wait"
    /\ UNCHANGED <<envVars, observerVars, fixedVars, flickerVars, streamEnded, waits, lastEnum, initial_list, wait_seconds, todo,
                   chan, handleVars, historyVars>>

Worker ==
    \/ InitialEnumerate
    \/ SendInitial
    \/ WaitIncrement
    \/ Poll
    \/ DisconnectStep
    \/ ConnectStep
    \/ LoopExit
    \/ StoreStep

\* ------------------------------------------------- caller and environment
\* for event in sub.rx_event.iter(): one event is taken from the channel.
Receive ==
    /\ rx_count > 0
    /\ chan # <<>>
    /\ received' = Append(received, Head(chan))
    /\ chan' = Tail(chan)
    /\ UNCHANGED <<envVars, observerVars, fixedVars, flickerVars, streamEnded, waits, lastEnum, workerVars, handleVars,
                   sent, sentTick, tickEvents, tickNo, exitReason>>

\* thread::Builder::spawn(..).expect("Could not spawn background thread"):
\* subscribe returns the Subscription when the thread was spawned and panics
\* otherwise.
SpawnOutcome_unchecked(spawned) == "returned"
SpawnOutcome(spawned) == IF spawned THEN "returned" ELSE "panicked"

\* One call of Observer::subscribe; the OS creates the thread or refuses to.
\* On a panic the unwinding drops both channels.
Subscribe ==
    /\ outcome = "pending"
    /\ \E spawned \in BOOLEAN :
          /\ outcome' = SpawnOutcome(spawned)
          /\ pc' = IF spawned THEN "enumerate" ELSE "unspawned"
    /\ rx_count' = IF outcome' = "returned" THEN 1 ELSE 0
    /\ tx_count' = IF outcome' = "returned" THEN 1 ELSE 0
    /\ UNCHANGED <<envVars, observerVars, universe, winVars, secondVars,
                   flickerVars, streamEnded, initial_list, device_list, next_devices,
                   wait_seconds, todo, chan, historyVars, waits, lastEnum>>

\* The OS call of an enumeration fails (linux.rs: Enumerator::new() or
\* scan_devices() returns Err and .expect(..) panics; macos.rs panics the
\* same way): the worker thread unwinds and is gone.
EnumeratePanics ==
    /\ \/ pc = "enumerate"
       \/ pc = "wait" /\ wait_seconds = 0
    /\ pc' = "done"
    /\ exitReason' = "enumerate_panicked"
    /\ UNCHANGED <<envVars, observerVars, fixedVars, flickerVars, streamEnded, initial_list,
                   device_list, next_devices, wait_seconds, todo, chan,
                   handleVars, sent, sentTick, received, tickEvents, tickNo,
                   waits, lastEnum>>

\* The worker closure owns tx_event (`move ||`), the only sender of the
\* event channel: it is dropped when the closure returns.
tx_event_dropped_never == FALSE
tx_event_dropped == pc = "done"

\* for event in sub.rx_event.iter(): the pull finds the channel empty and
\* disconnected, so the iterator yields None and the loop ends.  (A pull on
\* an empty channel whose sender lives blocks: no step.)
EndOfStream ==
    /\ rx_count > 0
    /\ ~streamEnded
    /\ chan = <<>>
    /\ tx_event_dropped
    /\ streamEnded' = TRUE
    /\ UNCHANGED <<envVars, observerVars, fixedVars, flickerVars, workerVars, chan,
                   handleVars, historyVars, waits, lastEnum>>

\* Subscription.rx_event is dropped (the first field: dropped first when
\* the Subscription is dropped, or alone when the caller moves it out).
DropReceiver ==
    /\ rx_count > 0
    /\ rx_count' = rx_count - 1
    /\ UNCHANGED <<envVars, observerVars, fixedVars, flickerVars, streamEnded, waits, lastEnum, workerVars, chan, tx_count, historyVars>>

\* Subscription.tx_close is dropped.
DropSender ==
    /\ tx_count > 0
    /\ tx_count' = tx_count - 1
    /\ UNCHANGED <<envVars, observerVars, fixedVars, flickerVars, streamEnded, waits, lastEnum, workerVars, chan, rx_count, historyVars>>

\* One change of the attached hardware: a device is plugged in, a device is
\* unplugged, or the OS reports other metadata for an attached device.
PopulationChange ==
    /\ changes < MaxChanges
    /\ \/ \E d \in universe \ attached :
             /\ \A e \in attached : e.id # d.id
             /\ attached' = attached \cup {d}
       \/ \E d \in attached :
             attached' = attached \ {d}
       \/ \E d \in attached, e \in universe \ attached :
             /\ e.id = d.id
             /\ attached' = (attached \ {d}) \cup {e}
    /\ changes' = changes + 1
    /\ arrived' = arrived \cup (attached' \ attached)
    /\ UNCHANGED <<observerVars, fixedVars, transient, streamEnded, waits, lastEnum, workerVars, chan, handleVars, historyVars>>

\* ------------------------------------------------------------ windows.rs
\* A call enumerate_platform(vid, pid) starts: output is empty, i = 0.
WinInit ==
    /\ universe = {}
    /\ attached = {}
    /\ changes = 0
    /\ poll_interval = 0
    /\ vendor_id = None
    /\ product_id = None
    /\ pc = "unspawned"
    /\ rx_count = 0
    /\ tx_count = 0
    /\ outcome = "pending"
    /\ initial_list = <<>>
    /\ device_list = {}
    /\ next_devices = {}
    /\ wait_seconds = 0
    /\ todo = {}
    /\ chan = <<>>
    /\ sent = <<>>
    /\ sentTick = <<>>
    /\ received = <<>>
    /\ tickEvents = <<>>
    /\ tickNo = 0
    /\ exitReason = "none"
    /\ streamEnded = FALSE
    /\ waits = 0
    /\ lastEnum = {}
    /\ arrived = {}
    /\ transient = {}
    /\ SecondIdle
    /\ win_records \in RecordLists
    /\ win_vid \in {None, Some(1)}
    /\ win_pid \in {None, Some(1)}
    /\ win_i = 0
    /\ win_output = <<>>
    /\ win_pc = "loop"
    /\ win_visits = [k \in 1..Len(win_records) |-> 0]

observerIdleVars ==
    <<envVars, observerVars, universe, outcome, workerVars, chan, handleVars,
      historyVars, streamEnded, waits, lastEnum, secondVars, flickerVars>>

\* The index after one run of the loop body: `continue` jumps over
\* `i += 1` at the end of the body.
IndexAfterBody(i, continued) == IF continued THEN i ELSE i + 1

\* One run of the body of `while SetupDiEnumDeviceInfo(dev_info, i, ..) > 0`.
WinIterate ==
    /\ win_pc = "loop"
    /\ win_i < Len(win_records)
    /\ win_visits[win_i + 1] < MaxVisits
    /\ win_visits' = [win_visits EXCEPT ![win_i + 1] = @ + 1]
    /\ LET rec == win_records[win_i + 1]
           ids == IF rec.hardware_id = None THEN [kind |-> "Err"]
                  ELSE extract_vid_pid(rec.hardware_id[1])
       IN  IF ids.kind = "Panic"
           THEN /\ win_pc' = "panicked"
                /\ UNCHANGED <<win_i, win_output>>
           ELSE IF ids.kind = "Err"
           THEN /\ win_i' = IndexAfterBody(win_i, FALSE)
                /\ UNCHANGED <<win_pc, win_output>>
           ELSE IF \/ win_vid # None /\ win_vid[1] # ids.vendor_id
                   \/ win_pid # None /\ win_pid[1] # ids.product_id
           THEN /\ win_i' = IndexAfterBody(win_i, TRUE)
                /\ UNCHANGED <<win_pc, win_output>>
           ELSE /\ win_i' = IndexAfterBody(win_i, FALSE)
                /\ win_output' =
                      IF rec.description # None /\ rec.instance_id # None
                      THEN Append(win_output,
                                  WinDevice(rec.instance_id[1], ids.vendor_id,
                                            ids.product_id, rec.description[1]))
                      ELSE win_output
                /\ UNCHANGED win_pc
    /\ UNCHANGED <<win_records, win_vid, win_pid>>
    /\ UNCHANGED observerIdleVars

\* SetupDiEnumDeviceInfo reports no record at index i: the loop ends and
\* output is returned.
WinReturn ==
    /\ win_pc = "loop"
    /\ win_i >= Len(win_records)
    /\ win_pc' = "returned"
    /\ UNCHANGED <<win_records, win_vid, win_pid, win_i, win_output, win_visits>>
    /\ UNCHANGED observerIdleVars

WinNext ==
    \/ WinIterate
    \/ WinReturn

WinSpec == WinInit /\ [][WinNext]_vars

\* ------------------------------------------- a second call of subscribe
\* let (tx_event, rx_event) = unbounded(); let (tx_close, rx_close) =
\* bounded::<()>(0); are locals of subscribe: the call'th call of subscribe
\* creates its own pair of channels and moves their ends into its worker
\* and its Subscription.  Channels are named by the call that created them.
ChannelsOf_first(call) == 1
ChannelsOf(call) == call

\* Live Receiver<Event> handles of event channel c
Receivers(c) == IF c = 1 THEN rx_count ELSE rx_count2

\* Live Sender<()> handles of cancellation channel c
Closers(c) == IF c = 1 THEN tx_count ELSE tx_count2

\* What the second subscribe call and its worker leave alone.
firstVars ==
    <<envVars, observerVars, universe, outcome, winVars, workerVars,
      handleVars, historyVars, streamEnded, waits, lastEnum, flickerVars>>

\* The Observer (by &self) is subscribed to once more while the first
\* Subscription exists; the thread is spawned.
Subscribe2 ==
    /\ outcome = "returned"
    /\ pc2 = "unspawned"
    /\ pc2' = "enumerate"
    /\ chan2' = <<>>
    /\ rx_count2' = 1
    /\ tx_count2' = 1
    /\ UNCHANGED <<firstVars, chan, initial_list2, device_list2, next_devices2,
                   wait_seconds2, todo2, sent2, received2>>

\* One tx_event.send(e) of the second worker, followed by the is_err() test.
Emit2(e, contPc) ==
    LET c == ChannelsOf(2)
        result == IF Receivers(c) > 0 THEN "Ok" ELSE "Err"
    IN  /\ pc2' = AfterSend(result, contPc)
        /\ IF result = "Ok"
           THEN /\ sent2' = Append(sent2, e)
                /\ IF c = 2
                   THEN chan2' = push(chan2, e) /\ UNCHANGED chan
                   ELSE chan' = push(chan, e) /\ UNCHANGED chan2
           ELSE UNCHANGED <<sent2, chan, chan2>>

\* let device_list = this.enumerate();
InitialEnumerate2 ==
    /\ pc2 = "enumerate"
    /\ \E list \in enumerate(attached) :
           initial_list2' = Observer_enumerate(list)
    /\ pc2' = "send_initial"
    /\ UNCHANGED <<firstVars, chan, device_list2, next_devices2, wait_seconds2,
                   todo2, chan2, handle2Vars, sent2, received2>>

\* Send Event::Initial, then build the HashSet and set wait_seconds.
SendInitial2 ==
    /\ pc2 = "send_initial"
    /\ Emit2(FirstEvent(initial_list2), "wait")
    /\ IF pc2' = "done"
       THEN UNCHANGED <<device_list2, wait_seconds2>>
       ELSE /\ device_list2' = into_set(initial_list2)
            /\ wait_seconds2' = poll_interval
    /\ UNCHANGED <<firstVars, initial_list2, next_devices2, todo2, handle2Vars,
                   received2>>

\* One iteration of `while wait_seconds > 0`.
WaitIncrement2 ==
    /\ pc2 = "wait"
    /\ wait_seconds2 > 0
    /\ LET r == IF Closers(ChannelsOf(2)) = 0 THEN "Disconnected" ELSE "Timeout"
       IN  pc2' = AfterRecvTimeout(r)
    /\ wait_seconds2' = IF pc2' = "done" THEN wait_seconds2 ELSE wait_seconds2 - 1
    /\ UNCHANGED <<firstVars, chan, initial_list2, device_list2, next_devices2,
                   todo2, chan2, handle2Vars, sent2, received2>>

\* The wait is over: reset wait_seconds and enumerate again.
Poll2 ==
    /\ pc2 = "wait"
    /\ wait_seconds2 = 0
    /\ wait_seconds2' = WaitReset(poll_interval)
    /\ \E list \in enumerate(attached) :
           next_devices2' = Range(Observer_enumerate(list))
    /\ pc2' = TickSteps[1]
    /\ todo2' = LoopOver(pc2', device_list2, next_devices2')
    /\ UNCHANGED <<firstVars, chan, initial_list2, device_list2, chan2,
                   handle2Vars, sent2, received2>>

\* One iteration of `for device in &device_list`.
DisconnectStep2 ==
    /\ pc2 = "disconnects"
    /\ \E device \in todo2 :
          /\ todo2' = todo2 \ {device}
          /\ IF ~contains(next_devices2, device)
             THEN Emit2(Disconnect(device), pc2)
             ELSE UNCHANGED <<pc2, sent2, chan, chan2>>
    /\ UNCHANGED <<firstVars, initial_list2, device_list2, next_devices2,
                   wait_seconds2, handle2Vars, received2>>

\* One iteration of `for device in &next_devices`.
ConnectStep2 ==
    /\ pc2 = "connects"
    /\ \E device \in todo2 :
          /\ todo2' = todo2 \ {device}
          /\ IF ~contains(device_list2, device)
             THEN Emit2(Connect(device), pc2)
             ELSE UNCHANGED <<pc2, sent2, chan, chan2>>
    /\ UNCHANGED <<firstVars, initial_list2, device_list2, next_devices2,
                   wait_seconds2, handle2Vars, received2>>

\* A for-loop has visited every element: go on to the next statement.
LoopExit2 ==
    /\ pc2 \in {"disconnects", "connects"}
    /\ todo2 = {}
    /\ pc2' = StepAfter(pc2)
    /\ todo2' = LoopOver(pc2', device_list2, next_devices2)
    /\ UNCHANGED <<firstVars, chan, initial_list2, device_list2, next_devices2,
                   wait_seconds2, chan2, handle2Vars, sent2, received2>>

\* device_list = next_devices; and back to the top of `loop`.
StoreStep2 ==
    /\ pc2 = "store"
    /\ device_list2' = Store(device_list2, next_devices2)
    /\ next_devices2' = {}
    /\ pc2' = "wait"
    /\ UNCHANGED <<firstVars, chan, initial_list2, wait_seconds2, todo2, chan2,
                   handle2Vars, sent2, received2>>

Worker2 ==
    \/ InitialEnumerate2
    \/ SendInitial2
    \/ WaitIncrement2
    \/ Poll2
    \/ DisconnectStep2
    \/ ConnectStep2
    \/ LoopExit2
    \/ StoreStep2

\* One event is taken from the second subscription's rx_event.
Receive2 ==
    /\ rx_count2 > 0
    /\ chan2 # <<>>
    /\ received2' = Append(received2, Head(chan2))
    /\ chan2' = Tail(chan2)
    /\ UNCHANGED <<firstVars, chan, worker2Vars, handle2Vars, sent2>>

\* The second Subscription's rx_event is dropped.
DropReceiver2 ==
    /\ rx_count2 > 0
    /\ rx_count2' = rx_count2 - 1
    /\ UNCHANGED <<firstVars, chan, worker2Vars, chan2, tx_count2, sent2, received2>>

\* The second Subscription's tx_close is dropped.
DropSender2 ==
    /\ tx_count2 > 0
    /\ tx_count2' = tx_count2 - 1
    /\ UNCHANGED <<firstVars, chan, worker2Vars, chan2, rx_count2, sent2, received2>>

Next ==
    \/ Worker
    \/ Receive
    \/ EndOfStream
    \/ DropReceiver
    \/ DropSender
    \/ PopulationChange

Spec == Init /\ [][Next]_vars

\* The OS schedules the worker thread: a step it can take is eventually taken.
FairSpec == Spec /\ WF_vars(Worker)

\* A consumer that iterates rx_event keeps pulling: a receive or an
\* end-of-stream that stays possible eventually happens.
ConsumerFairSpec ==
    Spec /\ WF_vars(Worker) /\ WF_vars(Receive) /\ WF_vars(EndOfStream)

\* The program from the call of subscribe on, with an OS that can refuse to
\* create the thread and whose device registry query can fail.
FailureNext ==
    \/ Next
    \/ Subscribe
    \/ EnumeratePanics

FailureSpec == FailureInit /\ [][FailureNext]_vars

\* The same program with vendor / product filters set on the Observer.
FilterSpec == FilterInit /\ [][Next]_vars

\* Observer::new(0 or 1).subscribe() where the OS presents one device, with
\* or without a description, and schedules the worker fairly.
ReportDevices == {DevA, DevADesc}

ReportInit ==
    /\ universe = ReportDevices
    /\ attached \in PopulationsOf(ReportDevices)
    /\ changes = 0
    /\ poll_interval \in {0, 1}
    /\ vendor_id = None
    /\ product_id = None
    /\ Subscribed

ReportFairSpec == ReportInit /\ [][Next]_vars /\ WF_vars(Worker)

\* ------------------------------------------------- clones of a Subscription
MaxClones == 1       \* clones alive next to the original Subscription

\* #[derive(Clone)] on Subscription: a clone holds a clone of rx_event (one
\* more receiver of the same event channel) and a clone of tx_close (one
\* more sender of the same cancellation channel).
CloneSubscription ==
    /\ rx_count > 0
    /\ tx_count > 0
    /\ rx_count <= MaxClones
    /\ tx_count <= MaxClones
    /\ rx_count' = rx_count + 1
    /\ tx_count' = tx_count + 1
    /\ UNCHANGED <<envVars, observerVars, fixedVars, flickerVars, streamEnded,
                   waits, lastEnum, workerVars, chan, historyVars>>

\* Observer::new(poll_interval).subscribe() with two devices the OS can
\* present; the caller may clone the Subscription.
CloneInit ==
    /\ universe = {DevA, DevB}
    /\ attached \in PopulationsOf({DevA, DevB})
    /\ changes = 0
    /\ poll_interval \in 0..MaxInterval
    /\ vendor_id = None
    /\ product_id = None
    /\ Subscribed

CloneNext ==
    \/ Next
    \/ CloneSubscription

CloneSpec == CloneInit /\ [][CloneNext]_vars

\* let o = Observer::new(1); let s1 = o.subscribe(); and, at any later
\* moment, let s2 = o.subscribe();
TwoInit ==
    /\ universe = {DevA}
    /\ attached \in PopulationsOf({DevA})
    /\ changes = 0
    /\ poll_interval = 1
    /\ vendor_id = None
    /\ product_id = None
    /\ Subscribed

TwoNext ==
    \/ Next
    \/ Subscribe2
    \/ Worker2
    \/ Receive2
    \/ DropReceiver2
    \/ DropSender2

TwoSpec == TwoInit /\ [][TwoNext]_vars

\* ================================================================ claims
\* The events one tick has to send for the stored population old and the
\* enumerated population new.
Expected(old, new) ==
    {Disconnect(d) : d \in old \ new} \cup {Connect(d) : d \in new \ old}

InTick == pc \in {"disconnects", "connects", "store"}

NoDuplicates(s) == \A i, j \in 1..Len(s) : s[i] = s[j] => i = j

\* C1: a poll tick sends Disconnect(d) exactly once for every d of the stored
\* population that is missing from the new enumeration, Connect(d) exactly
\* once for every enumerated d that is not stored, and nothing else; a tick
\* that enumerates the stored population again sends nothing.
C1_TickEmitsExactDiff ==
    InTick =>
        /\ Range(tickEvents) \subseteq Expected(device_list, next_devices)
        /\ NoDuplicates(tickEvents)
        /\ pc = "store" =>
              Range(tickEvents) = Expected(device_list, next_devices)

C1_Witness ==
    /\ pc = "store"
    /\ \E d \in device_list, e \in next_devices :
          /\ d.id # e.id
          /\ Disconnect(d) \in Range(tickEvents)
          /\ Connect(e) \in Range(tickEvents)

\* C2: the first event sent is Initial and carries the first enumeration,
\* no later event is Initial, and the worker is never in its polling loop
\* without having sent it.
C2_InitialFirstAndOnce ==
    /\ sent # <<>> => sent[1] = Initial(initial_list)
    /\ \A i \in 2..Len(sent) : sent[i].type # "Initial"
    /\ pc \in {"wait", "disconnects", "connects", "store"} => sent # <<>>

C2_Witness ==
    /\ Len(sent) >= 3
    /\ sent[1] = Initial(<<>>)

\* C3: once every handle of the Subscription is dropped the worker
\* eventually terminates, for every poll_interval including 0.
C3_DropTerminates ==
    (tx_count = 0 /\ rx_count = 0) ~> (pc = "done")

\* C4: within one tick no Connect is sent before a Disconnect.
C4_DisconnectsBeforeConnects ==
    \A i, j \in 1..Len(tickEvents) :
        (tickEvents[i].type = "Connect" /\ tickEvents[j].type = "Disconnect")
            => j < i

C4_Witness ==
    \E i, j \in 1..Len(tickEvents) :
        /\ i < j
        /\ tickEvents[i].type = "Disconnect"
        /\ tickEvents[j].type = "Connect"

\* C5: the consumer receives the events in the order they were sent, none
\* reordered, duplicated or dropped: what was received followed by what is
\* still in the channel is what was sent; Initial precedes every tick and
\* the events of an earlier tick precede those of a later one.
C5_ReceivedInSendOrder ==
    /\ received \o chan = sent
    /\ Len(sentTick) = Len(sent)
    /\ \A i, j \in 1..Len(sent) : i < j => sentTick[i] <= sentTick[j]
    /\ \A i \in 1..Len(sent) : (sentTick[i] = 0) <=> (i = 1)

C5_Witness ==
    /\ Len(received) >= 3
    /\ sentTick[2] = 1
    /\ sentTick[3] = 2

\* C6: for every device value the Connect and Disconnect events strictly
\* alternate, starting with Disconnect when the Initial list holds the
\* device and with Connect otherwise.
AboutIdx(d) == {i \in 2..Len(sent) : sent[i].devices = <<d>>}

MaxOf(S) == CHOOSE m \in S : \A k \in S : k <= m

C6_ConnectDisconnectAlternate ==
    \A d \in Devices : \A i \in AboutIdx(d) :
        LET prev == {j \in AboutIdx(d) : j < i} IN
        IF prev = {}
        THEN sent[i].type = (IF d \in Range(sent[1].devices)
                             THEN "Disconnect" ELSE "Connect")
        ELSE sent[i].type # sent[MaxOf(prev)].type

C6_Witness ==
    \E d \in Devices : \E i, j \in AboutIdx(d) :
        /\ i < j
        /\ sent[i] = Connect(d)
        /\ sent[j] = Disconnect(d)

\* C7: from the step in which the worker observes the cancellation channel
\* disconnected it is terminated: no enumeration, no event, no change of its
\* state in that step or any later one.
C7_CancelTerminatesAtOnce ==
    [][exitReason' = "cancelled" =>
          /\ pc' = "done"
          /\ sent' = sent
          /\ Len(chan') <= Len(chan)
          /\ <<initial_list, device_list, next_devices, wait_seconds, todo>>' =
             <<initial_list, device_list, next_devices, wait_seconds, todo>>]_vars

C7_Witness ==
    /\ exitReason = "cancelled"
    /\ attached # device_list
    /\ rx_count > 0

\* C8: from the step in which a send fails the worker is terminated: no
\* later event (the rest of the tick included), no enumeration, and the
\* stored population is not updated.
C8_SendFailureTerminatesAtOnce ==
    [][exitReason' = "send_failed" =>
          /\ pc' = "done"
          /\ sent' = sent
          /\ chan' = chan
          /\ device_list' = device_list
          /\ next_devices' = next_devices]_vars

C8_Witness ==
    /\ exitReason = "send_failed"
    /\ tickEvents # <<>>
    /\ Range(tickEvents) # Expected(device_list, next_devices)
    /\ attached # next_devices

\* C9: the worker terminates only by an observed cancellation (every
\* tx_close gone) or a failed send (every receiver gone); while a tx_close
\* and an rx_event are held it is not terminated and polls again and again,
\* whether or not the consumer drains the channel.
Held == rx_count > 0 /\ tx_count > 0

C9_RunsWhileHeld ==
    /\ [](Held => pc # "done")
    /\ [](pc = "done" => \/ exitReason = "cancelled" /\ tx_count = 0
                         \/ exitReason = "send_failed" /\ rx_count = 0)
    /\ []<>(~Held \/ pc = "wait")
    /\ []<>(~Held \/ pc = "disconnects")

C9_Witness ==
    /\ Held
    /\ pc = "store"
    /\ tickNo >= 2
    /\ received = <<>>
    /\ Len(chan) >= 3

\* C10: when the stored population holds d, the new one holds d' # d and
\* not d (another id with the same vendor and product id, or the same id
\* with other metadata), the tick sends exactly one
\* Disconnect(d) and exactly one Connect(d'), in that order.
Occurrences(s, e) == {i \in 1..Len(s) : s[i] = e}

C10_ChangedDeviceIsRemovedThenAdded ==
    pc = "store" =>
        \A d \in device_list \ next_devices, e \in next_devices \ device_list :
            /\ Cardinality(Occurrences(tickEvents, Disconnect(d))) = 1
            /\ Cardinality(Occurrences(tickEvents, Connect(e))) = 1
            /\ \A i \in Occurrences(tickEvents, Disconnect(d)),
                  j \in Occurrences(tickEvents, Connect(e)) : i < j

C10_Witness ==
    /\ pc = "store"
    /\ \E d \in device_list, e \in next_devices :
          /\ d.id = e.id
          /\ d.vendor_id = e.vendor_id /\ d.product_id = e.product_id
          /\ d.description # e.description
          /\ tickEvents = <<Disconnect(d), Connect(e)>>

\* C11: the filters are fixed at subscribe time; every enumeration (the
\* first one and every poll) returns exactly the attached devices that match
\* the vendor and product filter, each once (the empty list when none
\* matches), so every device carried by an event matches the filters.
Matches(d) ==
    /\ vendor_id = None \/ d.vendor_id = vendor_id[1]
    /\ product_id = None \/ d.product_id = product_id[1]

MatchingAttached == {d \in attached : Matches(d)}

C11_FilteringExact ==
    /\ [](\A i \in 1..Len(sent) : \A d \in Range(sent[i].devices) : Matches(d))
    /\ [][(pc = "enumerate" /\ pc' = "send_initial") =>
             /\ Range(initial_list') = MatchingAttached
             /\ Len(initial_list') = Cardinality(MatchingAttached)]_vars
    /\ [][(pc = "wait" /\ pc' \notin {"wait", "done"}) =>
             next_devices' = MatchingAttached]_vars
    /\ [][observerVars' = observerVars]_vars

C11_Witness ==
    /\ vendor_id = Some(1)
    /\ product_id = Some(1)
    /\ {DevV, DevP} \subseteq attached
    /\ Len(sent) >= 2
    /\ sent[1] = Initial(<<>>)
    /\ sent[2] = Connect(DevA)

\* C12: the iteration over rx_event ends only after the worker has
\* terminated and every event it sent has been received; once the worker
\* has terminated a consumer that still holds rx_event reaches the end of
\* the stream.
C12_StreamEndsAfterWorker ==
    /\ [](streamEnded => (pc = "done" /\ received = sent /\ chan = <<>>))
    /\ (pc = "done" /\ rx_count > 0) ~> (streamEnded \/ rx_count = 0)

C12_Witness ==
    /\ streamEnded
    /\ exitReason = "cancelled"
    /\ Len(received) >= 3

\* C14: a send never waits: whatever the channel holds, a worker that has
\* not returned can take its next step, so a consumer that never drains
\* rx_event does not stall it.
C14_WorkerNeverBlocked ==
    pc # "done" => ENABLED Worker

C14_Witness ==
    /\ pc = "connects"
    /\ todo # {}
    /\ \A d \in todo : d \notin device_list
    /\ received = <<>>
    /\ Len(chan) >= 3
    /\ rx_count > 0

RECURSIVE ReplayFrom(_, _, _)
ReplayFrom(pop, events, i) ==
    IF i > Len(events) THEN pop
    ELSE LET e == events[i]
             d == e.devices[1]
         IN  ReplayFrom(IF e.type = "Disconnect" THEN pop \ {d} ELSE pop \cup {d},
                        events, i + 1)

Replay(events) == ReplayFrom(Range(events[1].devices), events, 2)

C19_ReplayEqualsStored ==
    pc = "wait" =>
        /\ Replay(sent) = device_list
        /\ device_list = lastEnum

C19_Witness ==
    /\ pc = "wait"
    /\ Len(sent) >= 3
    /\ sent[1].devices # <<>>
    /\ \E i \in 2..Len(sent) : sent[i].type = "Disconnect"
    /\ \E i \in 2..Len(sent) : sent[i].type = "Connect"

\* C15: when the thread cannot be created subscribe does not return: a
\* Subscription (an rx_event or a tx_close in the caller's hands) exists only
\* together with its worker.
C15_NoSubscriptionWithoutWorker ==
    /\ outcome = "returned" => pc # "unspawned"
    /\ outcome = "panicked" => (rx_count = 0 /\ tx_count = 0)
    /\ pc = "unspawned" => (rx_count = 0 /\ tx_count = 0 /\ sent = <<>>)

C15_Witness ==
    /\ outcome = "panicked"
    /\ pc = "unspawned"
    /\ changes > 0

\* C17: a poll whose OS call fails leaves the worker alive and waiting for
\* the next poll, sends nothing and keeps the stored population.
C17_OsFailureSkipsTick ==
    [][(pc = "wait" /\ EnumeratePanics) =>
          (pc' = "wait" /\ device_list' = device_list /\ sent' = sent)]_vars

\* C16: a record that cannot be decoded is skipped and nothing else
\* changes: the Windows enumerate_platform never panics and returns exactly
\* the devices the decodable records stand for (those matching the filters),
\* in order.
WinMatches(d) ==
    /\ win_vid = None \/ d.vendor_id = win_vid[1]
    /\ win_pid = None \/ d.product_id = win_pid[1]

RECURSIVE WinExpected(_)
WinExpected(records) ==
    IF records = <<>> THEN <<>>
    ELSE LET r == records[Len(records)]
             before == WinExpected(SubSeq(records, 1, Len(records) - 1))
         IN  IF r.expect # None /\ WinMatches(r.expect[1])
             THEN Append(before, r.expect[1]) ELSE before

C16_BadRecordIsSkipped ==
    /\ win_pc # "panicked"
    /\ win_pc = "returned" => win_output = WinExpected(win_records)

\* C20: the loop of the Windows enumerate_platform runs its body exactly
\* once for every index, whatever the filters: no index is visited twice,
\* and the call has returned only after every index was visited.
C20_EachIndexVisitedOnce ==
    /\ \A k \in 1..Len(win_visits) : win_visits[k] <= 1
    /\ win_pc = "returned" => \A k \in 1..Len(win_visits) : win_visits[k] = 1

\* C13: a call of subscribe starts one worker on a channel pair of its own
\* and leaves the Observer's poll_interval and filters as they were; with
\* two subscriptions of one Observer every event a worker sent is queued on
\* or was received from its own subscription's rx_event and no other, and a
\* subscription whose handles are both held keeps its worker running
\* whatever is dropped of the other subscription.
Held2 == rx_count2 > 0 /\ tx_count2 > 0

C13_SubscriptionsIndependent ==
    /\ [](received \o chan = sent)
    /\ [](received2 \o chan2 = sent2)
    /\ [](Held => pc # "done")
    /\ [](Held2 => pc2 # "done")
    /\ [][pc2 = "unspawned" /\ pc2' # "unspawned"
            => /\ pc2' = "enumerate"
               /\ chan2' = <<>>
               /\ rx_count2' = 1 /\ tx_count2' = 1
               /\ UNCHANGED <<observerVars, workerVars, chan, handleVars>>]_vars
    /\ [][rx_count2' # rx_count2 \/ tx_count2' # tx_count2
            => UNCHANGED <<workerVars, chan, handleVars, sent, received>>]_vars
    /\ [][rx_count' # rx_count \/ tx_count' # tx_count
            => UNCHANGED <<worker2Vars, chan2, handle2Vars, sent2, received2>>]_vars

C13_Witness ==
    /\ pc = "done" /\ rx_count = 0 /\ tx_count = 0
    /\ Len(received) >= 1
    /\ Held2 /\ pc2 = "wait"
    /\ Len(received2) >= 2

\* C21 as stated: under fair scheduling of the worker and while the
\* Subscription is held, a matching device that became attached after the
\* initial enumeration and stays attached leads to a Connect for it; a
\* stored device that is detached and stays detached leads to a Disconnect
\* for it; and a device that came and went between two enumerations has no
\* event in the tick of the second one.
ConnectSent(d) == Connect(d) \in Range(tickEvents)

DisconnectSent(d) == Disconnect(d) \in Range(tickEvents)

DetachedLeadsToDisconnect ==
    \A d \in ReportDevices :
        (d \in device_list /\ d \notin attached /\ ~DisconnectSent(d))
            ~> (d \in attached \/ ~Held \/ DisconnectSent(d))

TransientIsSilent ==
    \A d \in transient : ~ConnectSent(d) /\ ~DisconnectSent(d)

C21_ChangesEventuallyReported ==
    /\ \A d \in ReportDevices :
          (pc # "enumerate" /\ d \in arrived /\ d \in attached /\ Matches(d))
              ~> (d \notin attached \/ ~Held \/ ConnectSent(d))
    /\ DetachedLeadsToDisconnect
    /\ []TransientIsSilent

\* C21 amended: the attached device leads to a Connect when the worker's
\* most recent enumeration did not contain it.
C21_UnseenChangesEventuallyReported ==
    /\ \A d \in ReportDevices :
          (pc # "enumerate" /\ d \in arrived /\ d \notin lastEnum
                /\ d \in attached /\ Matches(d))
              ~> (d \notin attached \/ ~Held \/ ConnectSent(d))
    /\ DetachedLeadsToDisconnect
    /\ []TransientIsSilent

C21_Witness ==
    /\ Held
    /\ pc = "store"
    /\ transient # {}
    /\ \E d \in ReportDevices : d \notin Range(initial_list) /\ ConnectSent(d)

\* C22: with clones of the Subscription the worker returns on cancellation
\* only when no copy of tx_close is left; while a receiver and a tx_close
\* are held (by whichever clone) the worker has not terminated; and every
\* sent event is either still queued or was taken from the channel once,
\* by one receiver.
C22_CancellationFollowsLastHandle ==
    /\ exitReason = "cancelled" => tx_count = 0
    /\ Held => pc # "done"
    /\ received \o chan = sent

C22_Witness ==
    /\ rx_count = 2
    /\ tx_count = 1
    /\ pc = "wait"
    /\ device_list # Range(initial_list)
    /\ Len(received) >= 2

====
